---- MODULE Spec2Model ----
(***************************************************************************)
(* CodeParser (moatless/codeblocks/parser/parser.py): the recursive block  *)
(* builder parse_code, the span assigner _create_new_span, the reference   *)
(* extractor create_references and the entry point parse, as a state       *)
(* machine over an explicit call stack.                                    *)
(*                                                                         *)
(* The input of a parse is a syntax tree over a byte string.  The tree is  *)
(* given by a program: a sequence of items (one per logical line), each    *)
(* with a kind, a name and an indentation depth.  Bytes are modelled by    *)
(* their offsets, so that a slice of the content is the sequence of the    *)
(* offsets it holds and a lost, duplicated or reordered byte is visible.   *)
(***************************************************************************)
EXTENDS Integers, Sequences, FiniteSets, TLC

\* ---------------------------------------------------------------- bounds
\* Items of a source file, of any kind
MaxItems == 2
\* Items of a source file that holds statements and one definition kind
MaxStmts == 3
\* Items of a source file that holds top-level definitions only
MaxDefs == 3
\* Items of a source file that holds statements, comments and functions
MaxCommented == 4
MaxCalls == 2
MaxSharedItems == 2
\* Nesting depth of an item
MaxDepth == 3
\* Items of a source file that holds statements nested in with statements
MaxWalked == 4
\* Patterns of the regular tier and of the error-tolerant tier of a catalog
MaxQueries == 2
MaxGptQueries == 1

\* max_tokens_in_span, the constructor's parameter
MaxTokensInSpan == 2

\* ----------------------------------------------------------------- state
VARIABLES
    prog,       \* the items of the source file being parsed
    tree,       \* its syntax tree, with the captures of the catalog
    ctype,      \* type of the content handed to the last parse call
    apply_gpt_tweaks,   \* the constructor's flag
    pc,         \* "idle" | "parsing" | "done" | "raised"
    calls,      \* the parse calls made on this instance so far
    stack,      \* frames of parse_code, innermost last
    blocks,     \* heap of CodeBlock objects, 1 is the Module of this parse
    spans,      \* heap of BlockSpan objects
    spans_by_id,    \* self.spans_by_id: span id -> BlockSpan object
    graph,          \* self._graph: [nodes, edges], or NoGraph
    comments_with_no_span,  \* self.comments_with_no_span
    indexed,    \* the calls of index_callback in call order: the block handed
                \* over and the child list it had at the call
    result,     \* the Module returned by parse: [module, spans_by_id, graph]
    queries,    \* self.queries: the patterns of the regular tier, in order
    gpt_queries,    \* self.gpt_queries: the patterns of the error-tolerant tier
    node_match, \* the node last handed to find_in_tree and what it returned
    other       \* a second caller of parse on the same instance, while it
                \* does not run: its content, position, frames and result

vars == <<prog, tree, ctype, apply_gpt_tweaks, pc, calls, stack, blocks, spans, spans_by_id, graph,
          comments_with_no_span, indexed, result, queries, gpt_queries, node_match, other>>

\* ------------------------------------------------------- the syntax tree
NoNode == 0
Root == 1

Item(i) == 4 * i
Hdr(i) == 4 * i + 1
Blk(i) == 4 * i + 2
Err(i) == 4 * i + 3

ItemOf(nd) == nd \div 4
Role(nd) == IF nd = Root THEN "root"
            ELSE CASE nd % 4 = 0 -> "item"
                   [] nd % 4 = 1 -> "hdr"
                   [] nd % 4 = 2 -> "blk"
                   [] OTHER -> "err"

CompoundKinds == {"function", "class", "if", "with"}
LeafKinds == {"stmt", "bigstmt", "emptyref", "comment", "import_mod",
              "import_as", "import_from", "error", "haserr"}
FunctionNames == {"a", "a_2", "a0"}
ClassNames == {"a"}

\* The items a line can hold: kind and captured name ("" when the pattern
\* captures no identifier).
Definitions ==
    [kind : {"function"}, name : FunctionNames]
    \cup [kind : {"class"}, name : ClassNames]

ItemChoices == Definitions \cup [kind : {"if"} \cup LeafKinds, name : {""}]

WithDepth(it, d) == [kind |-> it.kind, name |-> it.name, depth |-> d]

\* Statements, with one kind of definition to hold them
Statements ==
    [kind : {"stmt", "bigstmt", "comment", "if"}, name : {""}]
    \cup [kind : {"function"}, name : {"a"}]

\* Statements and comments, inside and outside a function
Commented ==
    [kind : {"stmt", "comment"}, name : {""}]
    \cup [kind : {"function"}, name : {"a"}]

\* Plain statements nested in compound statements; the pattern of a with
\* statement captures the last statement of its body as child.last
Walked == [kind : {"stmt", "with"}, name : {""}]

\* Depths the item after p may have, at most maxd: one deeper than the
\* last item only when that item is a compound statement.
NextDepths(p, maxd) ==
    IF p = <<>> THEN {1}
    ELSE LET last == p[Len(p)]
         IN  1 .. (IF last.kind \in CompoundKinds /\ last.depth < maxd
                   THEN last.depth + 1 ELSE last.depth)

\* The programs of at most n items drawn from choices, nested to maxd.
RECURSIVE Programs(_, _, _)
Programs(n, choices, maxd) ==
    IF n = 0 THEN {<<>>}
    ELSE LET shorter == Programs(n - 1, choices, maxd)
             longest == {q \in shorter : Len(q) = n - 1}
         IN  shorter \cup
             UNION {UNION {{Append(p, WithDepth(it, d)) : d \in NextDepths(p, maxd)} :
                              it \in choices} : p \in longest}

Inputs ==
    (Programs(MaxItems, ItemChoices, MaxDepth)
     \cup Programs(MaxStmts, Statements, MaxDepth)
     \cup Programs(MaxCommented, Commented, 2)
     \cup Programs(MaxDefs, Definitions, 1)
     \cup Programs(MaxWalked, Walked, MaxDepth)) \ {<<>>}

\* Index of the item whose body holds item i; 0 for a top-level item.
ParentItem(p, i) ==
    IF p[i].depth = 1 THEN 0
    ELSE LET cands == {j \in 1 .. (i - 1) : p[j].depth = p[i].depth - 1}
         IN  CHOOSE j \in cands : \A k \in cands : k <= j

HasBody(p, i) == i < Len(p) /\ p[i + 1].depth = p[i].depth + 1

\* Last item of the subtree of item i.
LastDesc(p, i) ==
    LET inside == {k \in i .. Len(p) :
                      \A m \in (i + 1) .. k : p[m].depth > p[i].depth}
    IN  CHOOSE k \in inside : \A m \in inside : m <= k

RECURSIVE SortedSeq(_)
SortedSeq(S) ==
    IF S = {} THEN <<>>
    ELSE LET m == CHOOSE x \in S : \A y \in S : x <= y
         IN  <<m>> \o SortedSeq(S \ {m})

BodyItems(p, j) == SortedSeq({i \in 1 .. Len(p) : ParentItem(p, i) = j})

MapItem(s) == [k \in 1 .. Len(s) |-> Item(s[k])]

NodeChildren(p, nd) ==
    CASE Role(nd) = "root" -> MapItem(BodyItems(p, 0))
      [] Role(nd) = "item" ->
            IF HasBody(p, ItemOf(nd)) THEN <<Hdr(ItemOf(nd)), Blk(ItemOf(nd))>>
            ELSE IF p[ItemOf(nd)].kind = "haserr" THEN <<Err(ItemOf(nd))>>
            ELSE <<>>
      [] Role(nd) = "blk" -> MapItem(BodyItems(p, ItemOf(nd)))
      [] OTHER -> <<>>

NodeParent(p, nd) ==
    CASE Role(nd) = "root" -> NoNode
      [] Role(nd) = "item" ->
            IF ParentItem(p, ItemOf(nd)) = 0 THEN Root
            ELSE Blk(ParentItem(p, ItemOf(nd)))
      [] OTHER -> Item(ItemOf(nd))

IndexIn(s, x) == CHOOSE k \in 1 .. Len(s) : s[k] = x

NodeNextSibling(p, nd) ==
    IF NodeParent(p, nd) = NoNode THEN NoNode
    ELSE LET sibs == NodeChildren(p, NodeParent(p, nd))
             k == IndexIn(sibs, nd)
         IN  IF k < Len(sibs) THEN sibs[k + 1] ELSE NoNode

NodePrevSibling(p, nd) ==
    IF NodeParent(p, nd) = NoNode THEN NoNode
    ELSE LET sibs == NodeChildren(p, NodeParent(p, nd))
             k == IndexIn(sibs, nd)
         IN  IF k > 1 THEN sibs[k - 1] ELSE NoNode

NodeTypeOf(p, nd) ==
    CASE Role(nd) = "root" -> "module"
      [] Role(nd) = "hdr" -> ":"
      [] Role(nd) = "blk" -> "block"
      [] Role(nd) = "err" -> "ERROR"
      [] OTHER ->
            LET k == p[ItemOf(nd)].kind
            IN  CASE k \in {"function", "haserr"} -> "function_definition"
                  [] k = "class" -> "class_definition"
                  [] k = "if" -> "if_statement"
                  [] k = "with" -> "with_statement"
                  [] k \in {"stmt", "bigstmt", "emptyref"} -> "expression_statement"
                  [] k = "comment" -> "comment"
                  [] k \in {"import_mod", "import_as", "import_from"} -> "import_statement"
                  [] OTHER -> "ERROR"

\* Byte layout: item i is one byte of text at offset 2i-2 followed by one
\* byte of white space, except after the last item; the root spans the
\* whole content, trailing white space included.
NodeStartByte(p, nd) ==
    CASE Role(nd) = "root" -> 0
      [] Role(nd) = "blk" -> 2 * ItemOf(nd)
      [] OTHER -> 2 * ItemOf(nd) - 2

NodeEndByte(p, t, nd) ==
    CASE Role(nd) = "root" -> 2 * Len(p) - 1 + t
      [] Role(nd) \in {"hdr", "err"} -> 2 * ItemOf(nd) - 1
      [] OTHER -> 2 * LastDesc(p, ItemOf(nd)) - 1

NodesOf(p) ==
    {Root} \cup {Item(i) : i \in 1 .. Len(p)}
    \cup {Hdr(i) : i \in {j \in 1 .. Len(p) : HasBody(p, j)}}
    \cup {Blk(i) : i \in {j \in 1 .. Len(p) : HasBody(p, j)}}
    \cup {Err(i) : i \in {j \in 1 .. Len(p) : p[j].kind = "haserr"}}

\* content_bytes[a:b], as the offsets of its bytes
Slice(a, b) == IF b > a THEN [k \in 1 .. (b - a) |-> a + k - 1] ELSE <<>>


\* ------------------------------------------------------------ text values
\* Captured text is a sequence of one-character strings.
RECURSIVE Str(_)
Str(cs) == IF cs = <<>> THEN "" ELSE cs[1] \o Str(Tail(cs))

\* reference_id.split(".")
RECURSIVE SplitDot(_)
SplitDot(cs) ==
    IF \A k \in 1 .. Len(cs) : cs[k] # "."
    THEN <<Str(cs)>>
    ELSE LET k == CHOOSE i \in 1 .. Len(cs) :
                      cs[i] = "." /\ \A j \in 1 .. (i - 1) : cs[j] # "."
         IN  <<Str(SubSeq(cs, 1, k - 1))>> \o SplitDot(SubSeq(cs, k + 1, Len(cs)))

\* ".".join(path)
RECURSIVE JoinDot(_)
JoinDot(path) ==
    IF path = <<>> THEN ""
    ELSE IF Len(path) = 1 THEN path[1]
    ELSE path[1] \o "." \o JoinDot(Tail(path))

\* parameter_type.replace('"', "")
DropQuotes(cs) == SelectSeq(cs, LAMBDA c : c # "\"")

\* ------------------------------------------------------ pattern captures
\* What the catalog's patterns capture on an item, by kind: the reference
\* captures (node, tag) and the parameter captures (identifier, type).
Capture(n, text, tag) == [node |-> n, text |-> text, tag |-> tag]

ReferenceCaptures(p, i) ==
    LET k == p[i].kind
    IN  CASE k = "import_mod" -> <<Capture(1, <<"o", "s">>, "reference.module")>>
          [] k = "import_as" ->
                <<Capture(1, <<"o", "s">>, "reference.module"),
                  Capture(2, <<"o">>, "reference.alias")>>
          [] k = "import_from" ->
                <<Capture(1, <<"m">>, "reference.module"),
                  Capture(2, <<"x">>, "reference.identifier"),
                  Capture(3, <<"y">>, "reference.identifier")>>
          [] k = "stmt" -> <<Capture(1, <<"b", ".", "c">>, "reference.calls")>>
          [] k = "emptyref" -> <<Capture(1, <<>>, "reference.calls")>>
          [] k = "class" -> <<Capture(1, <<"B">>, "reference.type")>>
          [] OTHER -> <<>>

ParameterCaptures(p, i) ==
    IF p[i].kind = "function" /\ p[i].name = "a"
    THEN <<[identifier |-> <<"p">>, type |-> <<"\"", "T", ".", "U", "\"">>,
            has_type |-> TRUE]>>
    ELSE <<>>

\* len(self.tokenizer(code)) of an item's own text
NodeTokens(p, nd) ==
    IF Role(nd) = "item" /\ p[ItemOf(nd)].kind = "bigstmt"
    THEN MaxTokensInSpan + 1
    ELSE 1

\* ----------------------------------------------------------- node match
NodeMatch(bt) ==
    [block_type |-> bt, identifier |-> "", first_child |-> NoNode,
     last_child |-> NoNode, check_child |-> NoNode,
     parameters |-> <<>>, relationships |-> <<>>]

\* The match of the first catalog pattern whose root capture is the node;
\* block_type "" when no pattern matches.
CatalogMatch(p, nd) ==
    CASE Role(nd) = "root" ->
            IF NodeChildren(p, nd) = <<>> THEN NodeMatch("")
            ELSE [NodeMatch("Module") EXCEPT !.first_child = NodeChildren(p, nd)[1]]
      [] Role(nd) = "item" ->
            LET i == ItemOf(nd)
                k == p[i].kind
                bt == CASE k = "function" -> "Function"
                        [] k = "class" -> "Class"
                        [] k \in {"if", "with"} -> "Statement"
                        [] k = "comment" -> "Comment"
                        [] k \in {"import_mod", "import_as", "import_from"} -> "Import"
                        [] k = "emptyref" -> "Call"
                        [] OTHER -> ""
                fc == IF ~HasBody(p, i) THEN NoNode
                      ELSE IF k = "if" THEN Blk(i)
                      ELSE NodeChildren(p, Blk(i))[1]
                lc == IF HasBody(p, i) /\ k = "with"
                      THEN NodeChildren(p, Blk(i))[Len(NodeChildren(p, Blk(i)))]
                      ELSE NoNode
            IN  [NodeMatch(bt) EXCEPT
                    !.identifier = p[i].name,
                    !.first_child = fc,
                    !.last_child = lc,
                    !.parameters = ParameterCaptures(p, i),
                    !.relationships = ReferenceCaptures(p, i)]
      [] OTHER -> NodeMatch("")

\* The syntax tree of program p with t trailing bytes, with what the
\* catalog and the tokenizer give on each node.
SyntaxTree(p, t) ==
    [type |-> [nd \in NodesOf(p) |-> NodeTypeOf(p, nd)],
     parent |-> [nd \in NodesOf(p) |-> NodeParent(p, nd)],
     children |-> [nd \in NodesOf(p) |-> NodeChildren(p, nd)],
     next_sibling |-> [nd \in NodesOf(p) |-> NodeNextSibling(p, nd)],
     prev_sibling |-> [nd \in NodesOf(p) |-> NodePrevSibling(p, nd)],
     start_byte |-> [nd \in NodesOf(p) |-> NodeStartByte(p, nd)],
     end_byte |-> [nd \in NodesOf(p) |-> NodeEndByte(p, t, nd)],
     tokens |-> [nd \in NodesOf(p) |-> NodeTokens(p, nd)],
     match |-> [nd \in NodesOf(p) |-> CatalogMatch(p, nd)]]

Children(nd) == tree.children[nd]
Parent(nd) == tree.parent[nd]
NextSibling(nd) == tree.next_sibling[nd]
PrevSibling(nd) == tree.prev_sibling[nd]
NodeType(nd) == tree.type[nd]
StartByte(nd) == tree.start_byte[nd]
EndByte(nd) == tree.end_byte[nd]
CountTokens(nd) == tree.tokens[nd]
ContentBytes == Slice(0, EndByte(Root))

find_in_tree(nd) ==
    IF tree.match[nd].block_type # "" THEN tree.match[nd]
    ELSE NodeMatch("Code")

HasErrorChild(nd) ==
    \E k \in 1 .. Len(Children(nd)) : NodeType(Children(nd)[k]) = "ERROR"

\* parse_code, lines 150-158
MatchNode(nd) ==
    IF NodeType(nd) = "ERROR" \/ HasErrorChild(nd)
    THEN NodeMatch("Error")
    ELSE find_in_tree(nd)

RECURSIVE get_previous(_, _)
get_previous(nd, origin) ==
    IF nd = origin THEN StartByte(nd)
    ELSE IF PrevSibling(nd) # NoNode THEN EndByte(PrevSibling(nd))
    ELSE IF Parent(nd) # NoNode THEN get_previous(Parent(nd), origin)
    ELSE StartByte(nd)

\* Dereferencing the parent of a node that has none raises AttributeError.
Raised == 0 - 1

RECURSIVE get_parent_next(_, _)
\* A variant of get_parent_next without the test against orig_node
GetParentNextPastOrigin(nd, orig) ==
    IF nd = NoNode THEN Raised
    ELSE IF NextSibling(nd) # NoNode THEN NextSibling(nd)
    ELSE get_parent_next(Parent(nd), orig)

get_parent_next(nd, orig) ==
    IF nd = NoNode THEN Raised
    ELSE IF nd # orig
    THEN IF NextSibling(nd) # NoNode THEN NextSibling(nd)
         ELSE get_parent_next(Parent(nd), orig)
    ELSE NoNode

\* ------------------------------------------------------ CodeBlock objects
NoBlock == 0
NoSpan == 0

\* CodeBlockType.group
Group(t) ==
    CASE t \in {"Module", "Class", "Function", "Constructor"} -> "Structure"
      [] t = "Statement" -> "Block"
      [] OTHER -> t

CodeBlock(type, identifier, parent, pre_code, content, tokens, rels, node) ==
    [type |-> type, identifier |-> identifier, parent |-> parent,
     pre_code |-> pre_code, content |-> content, tokens |-> tokens,
     relationships |-> rels, children |-> <<>>, spans |-> {},
     belongs_to_span |-> NoSpan, is_indexed |-> FALSE, node |-> node]

RECURSIVE full_path(_, _)
full_path(bs, b) ==
    (IF bs[b].parent # NoBlock THEN full_path(bs, bs[b].parent) ELSE <<>>)
    \o (IF bs[b].identifier # "" THEN <<bs[b].identifier>> ELSE <<>>)

path_string(bs, b) == JoinDot(full_path(bs, b))

RECURSIVE find_type_in_parents(_, _, _)
find_type_in_parents(bs, b, t) ==
    IF bs[b].parent = NoBlock THEN NoBlock
    ELSE IF bs[bs[b].parent].type = t THEN bs[b].parent
    ELSE find_type_in_parents(bs, bs[b].parent, t)

RECURSIVE find_type_group_in_parents(_, _, _)
find_type_group_in_parents(bs, b, g) ==
    IF bs[b].parent = NoBlock THEN NoBlock
    ELSE IF Group(bs[bs[b].parent].type) = g THEN bs[b].parent
    ELSE find_type_group_in_parents(bs, bs[b].parent, g)

RECURSIVE SumSeq(_)
SumSeq(s) == IF s = <<>> THEN 0 ELSE s[1] + SumSeq(Tail(s))

RECURSIVE sum_tokens(_, _)
sum_tokens(bs, b) ==
    bs[b].tokens
    + SumSeq([k \in 1 .. Len(bs[b].children) |-> sum_tokens(bs, bs[b].children[k])])

append_child(bs, parent, child) ==
    [bs EXCEPT ![parent].children = Append(@, child), ![child].parent = parent]

Range(s) == {s[k] : k \in 1 .. Len(s)}

\* parse_code, lines 207-218
ExistingIdentifiers(bs, parent, type) ==
    LET same == SelectSeq(bs[parent].children, LAMBDA c : bs[c].type = type)
    IN  [k \in 1 .. Len(same) |-> bs[same[k]].identifier]

UniqueIdentifier(bs, parent, type, identifier) ==
    LET existing == ExistingIdentifiers(bs, parent, type)
    IN  IF identifier = ""
        THEN type \o "_" \o ToString(Len(existing))
        ELSE IF identifier \in Range(existing)
        THEN identifier \o "_" \o ToString(Len(existing))
        ELSE identifier

\* ---------------------------------------------------- reference extractor
Relationship(scope, type, identifier, path, external_path) ==
    [scope |-> scope, type |-> type, identifier |-> identifier,
     path |-> path, external_path |-> external_path]

\* A variant of ImportReference without the alias branch of lines 565-575
ImportReferencePlain(ref, module_reference_id) ==
    Relationship("EXTERNAL", "IMPORTS", Str(ref.text), <<Str(ref.text)>>,
                 <<module_reference_id>>)

ImportReference(ref, module_reference_id) ==
    IF ref.tag = "reference.alias"
    THEN Relationship("EXTERNAL", "IMPORTS", Str(ref.text), <<>>,
                      <<module_reference_id>>)
    ELSE Relationship("EXTERNAL", "IMPORTS", Str(ref.text), <<Str(ref.text)>>,
                      <<module_reference_id>>)

RelationshipType(tag, block_type) ==
    CASE tag = "reference.utilizes" ->
            IF block_type \in {"Function", "Class"} THEN "DEFINED_BY"
            ELSE "UTILIZES"
      [] tag = "reference.provides" -> "PROVIDES"
      [] tag = "reference.calls" -> "CALLS"
      [] tag = "reference.type" -> "IS_A"
      [] OTHER -> "USES"

create_references(identifier, m) ==
    LET rels == m.relationships
        module_nodes == SelectSeq(rels, LAMBDA r : r.tag = "reference.module")
    IN  IF m.block_type = "Import" /\ rels # <<>>
        THEN IF module_nodes # <<>>
             THEN LET module_reference_id == Str(module_nodes[1].text)
                      others == SelectSeq(rels, LAMBDA r : r # module_nodes[1])
                  IN  IF Len(rels) > 1
                      THEN [k \in 1 .. Len(others) |->
                               ImportReference(others[k], module_reference_id)]
                      ELSE <<Relationship("EXTERNAL", "IMPORTS",
                                          module_reference_id, <<>>,
                                          <<module_reference_id>>)>>
             ELSE <<>>
        ELSE LET kept == SelectSeq(rels, LAMBDA r : SplitDot(r.text) # <<>>)
             IN  [k \in 1 .. Len(kept) |->
                     Relationship("LOCAL",
                                  RelationshipType(kept[k].tag, m.block_type),
                                  identifier, SplitDot(kept[k].text), <<>>)]

\* The relationships create_parameters appends to the list it is given.
create_parameters(m, references) ==
    LET typed == SelectSeq(m.parameters, LAMBDA q : q.has_type)
    IN  references \o
        [k \in 1 .. Len(typed) |->
            Relationship("LOCAL", "USES", Str(typed[k].identifier),
                         SplitDot(DropQuotes(typed[k].type)), <<>>)]

\* ------------------------------------------------------------ span assigner
BlockSpan(span_id, span_type, parent_block_path, is_partial, index) ==
    [span_id |-> span_id, span_type |-> span_type,
     parent_block_path |-> parent_block_path, is_partial |-> is_partial,
     index |-> index, tokens |-> 0, block_paths |-> <<>>]

_create_span_id(bs, reg, b) ==
    LET structure_block ==
            IF Group(bs[b].type) = "Structure" THEN b
            ELSE find_type_group_in_parents(bs, b, "Structure")
        id1 == path_string(bs, structure_block)
        id2 == IF id1 = "" \/ id1 \in DOMAIN reg THEN path_string(bs, b) ELSE id1
    IN  IF id2 = "" \/ id2 \in DOMAIN reg
        THEN id2 \o ToString(Cardinality(bs[structure_block].spans))
        ELSE id2

\* A variant of the phase rule of lines 738-744 without the test for a
\* Function
SpanTypeOfRunning(cur, type) ==
    IF type = "Class" \/ cur.span_type = "INITIATION"
    THEN "INITIATION"
    ELSE "IMPLEMENTATION"

\* _create_new_span, lines 738-744
SpanType(cur, type) ==
    IF type = "Class" \/ (cur.span_type = "INITIATION" /\ type # "Function")
    THEN "INITIATION"
    ELSE "IMPLEMENTATION"

NoNewSpan == [new |-> FALSE, partial |-> FALSE,
              span |-> BlockSpan("", "", <<>>, FALSE, 0)]

\* A variant of _create_new_span without the rule of lines 752-767
CreateNewSpanNoDefinitionRule(bs, reg, cur, b) ==
    LET type == bs[b].type
        parent == bs[b].parent
        span_type == SpanType(cur, type)
        span_id == _create_span_id(bs, reg, b)
    IN  IF Len(cur.parent_block_path) > Len(full_path(bs, parent))
        THEN [new |-> TRUE, partial |-> FALSE,
              span |-> BlockSpan(span_id, span_type,
                                 IF Group(type) = "Structure"
                                 THEN full_path(bs, b)
                                 ELSE full_path(bs, parent),
                                 FALSE, 0)]
        ELSE IF /\ cur.tokens + sum_tokens(bs, b) > MaxTokensInSpan
                /\ Group(bs[parent].type) = "Structure"
        THEN [new |-> TRUE, partial |-> TRUE,
              span |-> BlockSpan(IF span_id \in DOMAIN reg
                                 THEN span_id \o ":" \o ToString(cur.index + 1)
                                 ELSE span_id,
                                 span_type, cur.parent_block_path, TRUE,
                                 cur.index + 1)]
        ELSE NoNewSpan

\* A variant of _create_new_span that splits on the budget under any parent
CreateNewSpanSplitAnywhere(bs, reg, cur, b) ==
    LET type == bs[b].type
        parent == bs[b].parent
        span_type == SpanType(cur, type)
        span_id == _create_span_id(bs, reg, b)
    IN  IF /\ Group(type) = "Structure"
           /\ type # "Constructor"
           /\ bs[parent].type \in {"Module", "Class"}
           /\ cur.parent_block_path = full_path(bs, parent)
        THEN [new |-> TRUE,
              partial |-> Len(cur.parent_block_path) < Len(full_path(bs, b)),
              span |-> BlockSpan(span_id, span_type, full_path(bs, b), FALSE, 0)]
        ELSE IF Len(cur.parent_block_path) > Len(full_path(bs, parent))
        THEN [new |-> TRUE, partial |-> FALSE,
              span |-> BlockSpan(span_id, span_type,
                                 IF Group(type) = "Structure"
                                 THEN full_path(bs, b)
                                 ELSE full_path(bs, parent),
                                 FALSE, 0)]
        ELSE IF cur.tokens + sum_tokens(bs, b) > MaxTokensInSpan
        THEN [new |-> TRUE, partial |-> TRUE,
              span |-> BlockSpan(IF span_id \in DOMAIN reg
                                 THEN span_id \o ":" \o ToString(cur.index + 1)
                                 ELSE span_id,
                                 span_type, cur.parent_block_path, TRUE,
                                 cur.index + 1)]
        ELSE NoNewSpan

\* _create_new_span: the span to start for block b, if any, and whether the
\* running span cur is marked partial.
_create_new_span(bs, reg, cur, b) ==
    LET type == bs[b].type
        parent == bs[b].parent
        span_type == SpanType(cur, type)
        span_id == _create_span_id(bs, reg, b)
    IN  IF /\ Group(type) = "Structure"
           /\ type # "Constructor"
           /\ bs[parent].type \in {"Module", "Class"}
           /\ cur.parent_block_path = full_path(bs, parent)
        THEN [new |-> TRUE,
              partial |-> Len(cur.parent_block_path) < Len(full_path(bs, b)),
              span |-> BlockSpan(span_id, span_type, full_path(bs, b), FALSE, 0)]
        ELSE IF Len(cur.parent_block_path) > Len(full_path(bs, parent))
        THEN [new |-> TRUE, partial |-> FALSE,
              span |-> BlockSpan(span_id, span_type,
                                 IF Group(type) = "Structure"
                                 THEN full_path(bs, b)
                                 ELSE full_path(bs, parent),
                                 FALSE, 0)]
        ELSE IF /\ cur.tokens + sum_tokens(bs, b) > MaxTokensInSpan
                /\ Group(bs[parent].type) = "Structure"
        THEN [new |-> TRUE, partial |-> TRUE,
              span |-> BlockSpan(IF span_id \in DOMAIN reg
                                 THEN span_id \o ":" \o ToString(cur.index + 1)
                                 ELSE span_id,
                                 span_type, cur.parent_block_path, TRUE,
                                 cur.index + 1)]
        ELSE NoNewSpan

RegisterSpan(reg, id, s) ==
    [x \in DOMAIN reg \cup {id} |-> IF x = id THEN s ELSE reg[x]]

\* lines 235-238 and 383-386: the queued comments join span s
RECURSIVE AttachBlocks(_, _, _)
AttachBlocks(bs, cs, s) ==
    IF cs = <<>> THEN bs
    ELSE AttachBlocks([bs EXCEPT ![cs[1]].belongs_to_span = s], Tail(cs), s)

AttachToSpan(bs, sp, cs) ==
    IF cs = <<>> THEN sp ELSE
    [sp EXCEPT
        !.block_paths = @ \o [k \in 1 .. Len(cs) |-> full_path(bs, cs[k])],
        !.tokens = @ + SumSeq([k \in 1 .. Len(cs) |-> bs[cs[k]].tokens])]

\* ------------------------------------------------------------------ graph
NoGraph == [set |-> FALSE, nodes |-> {}, edges |-> {}]
DiGraph == [set |-> TRUE, nodes |-> {}, edges |-> {}]

add_node(g, n) == [g EXCEPT !.nodes = @ \cup {n}]

add_edge(g, u, v) ==
    [g EXCEPT !.nodes = @ \cup {u, v}, !.edges = @ \cup {<<u, v>>}]

\* parse_code, lines 247-252
AddToGraph(g, ps, rels) ==
    [set |-> g.set,
     nodes |-> g.nodes \cup {ps} \cup {JoinDot(rels[k].path) : k \in 1 .. Len(rels)},
     edges |-> g.edges \cup {<<ps, JoinDot(rels[k].path)>> : k \in 1 .. Len(rels)}]

\* ------------------------------------------------------------------ index
\* A variant of _should_be_indexed without the inner-function test of
\* lines 670-672
IndexEveryFunction(bs, b) == bs[b].type \in {"Module", "Class", "Function"}

_should_be_indexed(bs, b) ==
    \/ bs[b].type \in {"Module", "Class"}
    \/ /\ bs[b].type = "Function"
       /\ find_type_in_parents(bs, b, "Function") = NoBlock

\* ------------------------------------------------------ frames of parse_code
Frame(node, start_byte, level, parent_block, current_span) ==
    [node |-> node, start_byte |-> start_byte, level |-> level,
     parent_block |-> parent_block, block |-> NoBlock,
     current_span |-> current_span, end_byte |-> start_byte,
     next_node |-> NoNode, wrong_level_mode |-> FALSE, pc |-> "enter"]

Top == stack[Len(stack)]
SetTop(f) == [stack EXCEPT ![Len(stack)] = f]

NoResult == [returned |-> FALSE, module |-> NoBlock, spans_by_id |-> <<>>,
             graph |-> NoGraph]

\* A label of a pattern: the file of its tier and its position in it
Label(file, index) == [file |-> file, index |-> index]
NoLabel == Label("", 0)

\* What a search for a match gives: None (no block type), a match with the
\* label of its pattern, or an exception
Answer(m, label) == [raised |-> FALSE, match |-> m, query |-> label]
NoAnswer == Answer(NodeMatch(""), NoLabel)
RaisedAnswer == [raised |-> TRUE, match |-> NodeMatch(""), query |-> NoLabel]
IsMatch(a) == ~a.raised /\ a.match.block_type # ""

\* find_in_tree has not been called on its own
NotAsked == [node |-> NoNode, raised |-> FALSE, match |-> NodeMatch(""), query |-> NoLabel]

\* What a parse leaves alone: the source, the constructor's flag, the lists
\* of patterns and the answer of a call of find_in_tree on its own.  The
\* lists are those of the base class, lines 94-95; what the patterns of a
\* language give on the nodes of a parsed file is held by tree.match.
config == <<prog, tree, apply_gpt_tweaks, queries, gpt_queries, node_match>>

\* No second caller
NoThread == [pc |-> "absent", prog |-> <<>>, tree |-> <<>>, stack |-> <<>>,
             result |-> NoResult]

Init ==
    /\ prog \in Inputs
    /\ \E t \in {0, 1} : tree = SyntaxTree(prog, t)
    /\ apply_gpt_tweaks \in (IF Len(prog) <= MaxItems THEN BOOLEAN ELSE {FALSE})
    /\ ctype = "none"
    /\ pc = "idle"
    /\ calls = 0
    /\ stack = <<>>
    /\ blocks = <<>>
    /\ spans = <<>>
    /\ spans_by_id = <<>>
    /\ graph = NoGraph
    /\ comments_with_no_span = <<>>
    /\ indexed = <<>>
    /\ result = NoResult
    /\ queries = <<>>
    /\ gpt_queries = <<>>
    /\ node_match = NotAsked
    /\ other = NoThread

ContentTypes == {"str", "bytes", "int"}

\* parse, lines 712-716: isinstance(content, str) or isinstance(content, bytes)
AcceptedType(t) == t \in {"str", "bytes"}

\* A variant of parse without the reset of lines 719-720
ParseStartOnOldRegistry ==
    /\ pc \in {"idle", "done", "raised"}
    /\ calls < MaxCalls
    /\ calls' = calls + 1
    /\ \E t \in ContentTypes : AcceptedType(t) /\ ctype' = "text"
    /\ pc' = "parsing"
    /\ graph' = IF graph = NoGraph THEN DiGraph ELSE graph
    /\ stack' = <<Frame(Root, 0, 0, NoBlock, NoSpan)>>
    /\ blocks' = <<>>
    /\ spans' = <<>>
    /\ indexed' = <<>>
    /\ result' = NoResult
    /\ UNCHANGED <<config, other, spans_by_id, comments_with_no_span>>

\* parse, lines 712-722: str or bytes content
ParseStart ==
    /\ pc \in {"idle", "done", "raised"}
    /\ calls < MaxCalls
    /\ calls' = calls + 1
    /\ \E t \in ContentTypes : AcceptedType(t) /\ ctype' = "text"
    /\ pc' = "parsing"
    /\ spans_by_id' = <<>>
    /\ graph' = DiGraph
    /\ stack' = <<Frame(Root, 0, 0, NoBlock, NoSpan)>>
    /\ blocks' = <<>>
    /\ spans' = <<>>
    /\ indexed' = <<>>
    /\ result' = NoResult
    /\ UNCHANGED <<config, other, comments_with_no_span>>

\* A variant of parse that tests the type of content after the reset of
\* lines 719-720
ParseRaiseAfterReset ==
    /\ pc \in {"idle", "done", "raised"}
    /\ calls < MaxCalls
    /\ calls' = calls + 1
    /\ \E t \in ContentTypes : ~AcceptedType(t) /\ ctype' = t
    /\ pc' = "raised"
    /\ spans_by_id' = <<>>
    /\ graph' = DiGraph
    /\ indexed' = <<>>
    /\ result' = NoResult
    /\ UNCHANGED <<config, other, stack, blocks, spans, comments_with_no_span>>

\* parse, lines 712-717: any other content raises ValueError
ParseRaise ==
    /\ pc \in {"idle", "done", "raised"}
    /\ calls < MaxCalls
    /\ calls' = calls + 1
    /\ \E t \in ContentTypes : ~AcceptedType(t) /\ ctype' = t
    /\ pc' = "raised"
    /\ indexed' = <<>>
    /\ result' = NoResult
    /\ UNCHANGED <<config, other, stack, blocks, spans, spans_by_id, graph,
                   comments_with_no_span>>

EndOfContent(nd, m) ==
    IF m.first_child # NoNode THEN get_previous(m.first_child, nd)
    ELSE EndByte(nd)

\* A variant of the root block that takes the type the root node matched,
\* as the blocks of lines 185-203 do
MatchedRootBlock(nd) ==
    CodeBlock(MatchNode(nd).block_type, "", NoBlock, <<>>, <<>>, 0, <<>>, nd)

\* parse_code, lines 261-274
ModuleBlock(nd) == CodeBlock("Module", "", NoBlock, <<>>, <<>>, 0, <<>>, nd)

\* parse_code, lines 278-283
WrongLevelMode(f, type) ==
    /\ apply_gpt_tweaks
    /\ f.level = 0
    /\ Parent(f.node) = NoNode
    /\ type # "Module"

\* parse_code without a parent block, lines 150-182 and 254-316
EnterRoot ==
    /\ pc = "parsing"
    /\ Top.pc = "enter"
    /\ Top.parent_block = NoBlock
    /\ LET f == Top
           m == MatchNode(f.node)
           s == Len(spans) + 1
           b == Len(blocks) + 1
           wrong == WrongLevelMode(f, ModuleBlock(f.node).type)
       IN  /\ spans' = Append(spans, BlockSpan("initiation", "INITIATION", <<>>, FALSE, 0))
           /\ blocks' = Append(blocks, ModuleBlock(f.node))
           /\ spans_by_id' = RegisterSpan(spans_by_id, "initiation", s)
           /\ stack' = SetTop([f EXCEPT
                  !.block = b,
                  !.current_span = s,
                  !.end_byte = IF wrong THEN f.start_byte ELSE EndOfContent(f.node, m),
                  !.next_node = IF wrong THEN f.node ELSE m.first_child,
                  !.wrong_level_mode = wrong,
                  !.pc = "loop"])
    /\ UNCHANGED <<config, other, ctype, calls, pc, graph, comments_with_no_span, indexed, result>>

\* parse_code with a parent block, lines 150-252 and 278-316
EnterChild ==
    /\ pc = "parsing"
    /\ Top.pc = "enter"
    /\ Top.parent_block # NoBlock
    /\ LET f == Top
           node == f.node
           m == MatchNode(node)
           pre_code == Slice(f.start_byte, StartByte(node))
           end_byte == EndOfContent(node, m)
           code == Slice(StartByte(node), end_byte)
           rels == create_parameters(m, create_references(m.identifier, m))
           b == Len(blocks) + 1
           ident == UniqueIdentifier(blocks, f.parent_block, m.block_type, m.identifier)
           bs1 == Append(blocks, CodeBlock(m.block_type, ident, f.parent_block,
                                           pre_code, code, CountTokens(node), rels, node))
           cur == f.current_span
           cs == comments_with_no_span
           deferred == m.block_type = "Comment" /\ Len(spans[cur].block_paths) > 1
           ns == _create_new_span(bs1, spans_by_id, spans[cur], b)
           sp1 == IF ns.partial THEN [spans EXCEPT ![cur].is_partial = TRUE] ELSE spans
           sp2 == IF ns.new THEN Append(sp1, ns.span) ELSE sp1
           cur2 == IF ns.new THEN Len(sp2) ELSE cur
           bs2 == IF ns.new
                  THEN [bs1 EXCEPT ![f.parent_block].spans = @ \cup {ns.span.span_id}]
                  ELSE bs1
           wrong == WrongLevelMode(f, m.block_type)
           Replaced(bs) == IF wrong THEN [bs EXCEPT ![b] = ModuleBlock(node)] ELSE bs
       IN  /\ IF deferred
              THEN /\ comments_with_no_span' = Append(cs, b)
                   /\ blocks' = Replaced(bs1)
                   /\ UNCHANGED <<spans, spans_by_id>>
              ELSE /\ comments_with_no_span' = <<>>
                   /\ blocks' = Replaced([AttachBlocks(bs2, cs, cur2) EXCEPT
                                            ![b].belongs_to_span = cur2])
                   /\ spans' = [sp2 EXCEPT ![cur2] =
                                   AttachToSpan(bs2, AttachToSpan(bs2, @, cs), <<b>>)]
                   /\ spans_by_id' = IF ns.new
                                     THEN RegisterSpan(spans_by_id, ns.span.span_id, cur2)
                                     ELSE spans_by_id
           /\ graph' = AddToGraph(graph, path_string(bs1, b), rels)
           /\ stack' = SetTop([f EXCEPT
                  !.block = b,
                  !.current_span = IF deferred THEN cur ELSE cur2,
                  !.end_byte = IF wrong THEN f.start_byte ELSE end_byte,
                  !.next_node = IF wrong THEN node ELSE m.first_child,
                  !.wrong_level_mode = wrong,
                  !.pc = "loop"])
    /\ UNCHANGED <<config, other, ctype, calls, pc, indexed, result>>

\* parse_code, lines 320-337: the loop hands the next node to a recursive call
Descend ==
    /\ pc = "parsing"
    /\ Top.pc = "loop"
    /\ Top.next_node # NoNode
    /\ LET f == Top
           nn == IF Children(f.next_node) # <<>> /\ NodeType(f.next_node) = "block"
                 THEN Children(f.next_node)[1]
                 ELSE f.next_node
       IN  stack' = Append(SetTop([f EXCEPT !.next_node = nn, !.pc = "call"]),
                           Frame(nn, f.end_byte, f.level + 1, f.block, f.current_span))
    /\ UNCHANGED <<config, other, ctype, calls, pc, blocks, spans, spans_by_id, graph,
                   comments_with_no_span, indexed, result>>

ExitReady(f) == f.pc = "exit" \/ (f.pc = "loop" /\ f.next_node = NoNode)

\* add_to_index, lines 659-663: the callback's log after the call
add_to_index(log, bs, b) ==
    IF _should_be_indexed(bs, b)
    THEN Append(log, [block |-> b, children |-> bs[b].children])
    ELSE log

\* parse_code, lines 383-409: what the call of frame f leaves behind
Finish(f) ==
    LET cs == comments_with_no_span
        bs1 == AttachBlocks(blocks, cs, f.current_span)
        sp1 == [spans EXCEPT ![f.current_span] = AttachToSpan(blocks, @, cs)]
        bs2 == IF _should_be_indexed(bs1, f.block)
               THEN [bs1 EXCEPT ![f.block].is_indexed = TRUE]
               ELSE bs1
        trailing == /\ f.level = 0
                    /\ Parent(f.node) = NoNode
                    /\ EndByte(f.node) > f.end_byte
        space == CodeBlock("Space", "", NoBlock, Slice(f.end_byte, EndByte(f.node)),
                           <<>>, 0, <<>>, NoNode)
    IN  [blocks |-> IF trailing
                    THEN append_child(Append(bs2, space), f.block, Len(bs2) + 1)
                    ELSE bs2,
         spans |-> sp1,
         indexed |-> add_to_index(indexed, bs1, f.block)]

\* The end of a recursive call (lines 383-409) and the caller's loop after
\* it (lines 346-379).
Return ==
    /\ pc = "parsing"
    /\ Len(stack) >= 2
    /\ ExitReady(Top)
    /\ LET c == Top
           p == stack[Len(stack) - 1]
           fin == Finish(c)
           cur == IF fin.spans[c.current_span].span_id # fin.spans[p.current_span].span_id
                  THEN c.current_span
                  ELSE p.current_span
           nn1 == IF c.next_node # NoNode THEN c.next_node ELSE p.next_node
           pm == MatchNode(p.node)
           orig == IF pm.check_child # NoNode THEN pm.check_child ELSE p.node
           brk == ~p.wrong_level_mode /\ nn1 = pm.last_child
           climb == ~brk /\ NextSibling(nn1) = NoNode
           npn == get_parent_next(nn1, orig)
           nn2 == IF brk THEN nn1
                  ELSE IF NextSibling(nn1) # NoNode THEN NextSibling(nn1)
                  ELSE IF npn = nn1 THEN NoNode
                  ELSE npn
           p2 == [p EXCEPT !.current_span = cur, !.end_byte = EndByte(nn1),
                           !.next_node = nn2,
                           !.pc = IF brk THEN "exit" ELSE "loop"]
       IN  /\ blocks' = append_child(fin.blocks, p.block, c.block)
           /\ spans' = fin.spans
           /\ indexed' = fin.indexed
           /\ comments_with_no_span' = <<>>
           /\ IF climb /\ npn = Raised
              THEN pc' = "raised" /\ stack' = <<>>
              ELSE pc' = pc /\ stack' = Append(SubSeq(stack, 1, Len(stack) - 2), p2)
    /\ UNCHANGED <<config, other, ctype, calls, spans_by_id, graph, result>>

\* A variant of parse that returns a registry and a graph of the call's
\* own in place of the fields of self read at lines 723 and 726
ParseReturnOwnRegistry ==
    /\ pc = "parsing"
    /\ Len(stack) = 1
    /\ ExitReady(Top)
    /\ LET fin == Finish(Top)
       IN  /\ blocks' = fin.blocks
           /\ spans' = fin.spans
           /\ indexed' = fin.indexed
           /\ result' = [returned |-> TRUE, module |-> Top.block,
                         spans_by_id |-> <<>>, graph |-> DiGraph]
    /\ comments_with_no_span' = <<>>
    /\ pc' = "done"
    /\ stack' = <<>>
    /\ UNCHANGED <<config, other, ctype, calls, spans_by_id, graph>>

\* The end of the top-level call and parse, lines 723-727
ParseReturn ==
    /\ pc = "parsing"
    /\ Len(stack) = 1
    /\ ExitReady(Top)
    /\ LET fin == Finish(Top)
       IN  /\ blocks' = fin.blocks
           /\ spans' = fin.spans
           /\ indexed' = fin.indexed
           /\ result' = [returned |-> TRUE, module |-> Top.block,
                         spans_by_id |-> spans_by_id, graph |-> graph]
    /\ comments_with_no_span' = <<>>
    /\ pc' = "done"
    /\ stack' = <<>>
    /\ UNCHANGED <<config, other, ctype, calls, spans_by_id, graph>>

Next ==
    \/ ParseStart
    \/ ParseRaise
    \/ EnterRoot
    \/ EnterChild
    \/ Descend
    \/ Return
    \/ ParseReturn

Spec == Init /\ [][Next]_vars

\* The steps of a running parse call.  parse is synchronous code on one
\* thread: once called it keeps executing until it returns or raises.
ParseSteps == EnterRoot \/ EnterChild \/ Descend \/ Return \/ ParseReturn

\* The condition under which EnterChild can be taken: its guard, since the
\* rest of the action assigns a value to every variable
EnterChildEnabled ==
    pc = "parsing" /\ Top.pc = "enter" /\ Top.parent_block # NoBlock

\* Weak fairness of every step of a running call.  For EnterChild it is
\* written out, WF_v(A) being []<>~(ENABLED <<A>>_v) \/ []<><<A>>_v.
SpecFair ==
    /\ Init /\ [][Next]_vars
    /\ WF_vars(EnterRoot)
    /\ WF_vars(Descend)
    /\ WF_vars(Return)
    /\ WF_vars(ParseReturn)
    /\ ([]<>~EnterChildEnabled \/ []<><<EnterChild>>_vars)

\* ------------------------------------------- two callers on one instance
\* The content of two calls that overlap
SharedInputs ==
    Programs(MaxSharedItems,
             [kind : {"stmt"}, name : {""}] \cup [kind : {"function"}, name : {"a"}],
             2) \ {<<>>}

\* Two threads hold the same CodeParser, each about to call parse once on
\* content of its own.  The variables prog, tree, pc, stack and result are
\* those of the thread that runs; the fields of self and the objects built
\* are common to both.
InitShared ==
    /\ prog \in SharedInputs
    /\ tree = SyntaxTree(prog, 0)
    /\ apply_gpt_tweaks = FALSE
    /\ ctype = "none"
    /\ pc = "idle"
    /\ calls = 0
    /\ stack = <<>>
    /\ blocks = <<>>
    /\ spans = <<>>
    /\ spans_by_id = <<>>
    /\ graph = NoGraph
    /\ comments_with_no_span = <<>>
    /\ indexed = <<>>
    /\ result = NoResult
    /\ queries = <<>>
    /\ gpt_queries = <<>>
    /\ node_match = NotAsked
    /\ \E q \in SharedInputs :
          other = [pc |-> "idle", prog |-> q, tree |-> SyntaxTree(q, 0),
                   stack |-> <<>>, result |-> NoResult]

\* parse, lines 712-722, called by the thread that runs: the fields of self
\* are rebound whatever the other thread is doing; the objects the other
\* thread built stay.
ParseStartShared ==
    /\ pc = "idle"
    /\ calls' = calls + 1
    /\ ctype' = "text"
    /\ pc' = "parsing"
    /\ spans_by_id' = <<>>
    /\ graph' = DiGraph
    /\ stack' = <<Frame(Root, 0, 0, NoBlock, NoSpan)>>
    /\ result' = NoResult
    /\ UNCHANGED <<config, other, blocks, spans, comments_with_no_span, indexed>>

\* The scheduler takes the thread that runs off the processor and resumes
\* the other one.
Switch ==
    /\ other.pc \in {"idle", "parsing"}
    /\ other' = [pc |-> pc, prog |-> prog, tree |-> tree, stack |-> stack,
                 result |-> result]
    /\ pc' = other.pc
    /\ prog' = other.prog
    /\ tree' = other.tree
    /\ stack' = other.stack
    /\ result' = other.result
    /\ UNCHANGED <<apply_gpt_tweaks, queries, gpt_queries, node_match, ctype, calls,
                   blocks, spans, spans_by_id, graph, comments_with_no_span, indexed>>

NextShared ==
    \/ ParseStartShared
    \/ Switch
    \/ EnterRoot
    \/ EnterChild
    \/ Descend
    \/ Return
    \/ ParseReturn

SpecShared == InitShared /\ [][NextShared]_vars

\* ============================================================ properties
\* parse has returned its Module
\* ------------------------------------------------ matching with patterns
\* CodeBlockType.from_string: the block type a tag names, "" for None
from_string(tag) ==
    CASE tag = "definition.module" -> "Module"
      [] tag = "definition.function" -> "Function"
      [] tag = "definition.class" -> "Class"
      [] tag = "definition.statement" -> "Statement"
      [] tag = "definition.call" -> "Call"
      [] tag = "definition.commented_out_code" -> "CommentedOutCode"
      [] OTHER -> ""

\* tag.startswith("reference")
ReferenceTags ==
    {"reference.utilizes", "reference.provides", "reference.calls",
     "reference.type", "reference.module", "reference.alias",
     "reference.identifier"}

\* A pattern: the node type read from its text (lines 112-118, "" for None)
\* and its query, given by the places of the tree it matches, in document
\* order, each with the captures of the match.
Site(at, caps) == [at |-> at, caps |-> caps]
Pattern(node_type, sites) == [node_type |-> node_type, sites |-> sites]

RECURSIVE InSubtree(_, _)
InSubtree(nd, top) ==
    IF nd = NoNode THEN FALSE
    ELSE nd = top \/ InSubtree(Parent(nd), top)

\* query.captures(node): the captures of the matches inside the node
RECURSIVE captures(_, _)
captures(sites, nd) ==
    IF sites = <<>> THEN <<>>
    ELSE (IF InSubtree(sites[1].at, nd) THEN sites[1].caps ELSE <<>>)
         \o captures(Tail(sites), nd)

\* _find_match, lines 504-542: what one capture past the root adds to the
\* match under construction
AddCapture(acc, cap, child) ==
    LET tag == cap.tag
        named == tag = "identifier" /\ ~acc.has_identifier
        \* lines 504-521
        ParseChild(m) ==
            IF tag = "parse_child" /\ IsMatch(child)
            THEN [m EXCEPT
                    !.relationships = IF child.match.relationships # <<>>
                                      THEN child.match.relationships ELSE @,
                    !.parameters = @ \o child.match.parameters,
                    !.first_child = IF child.match.first_child # NoNode
                                    THEN child.match.first_child ELSE @]
            ELSE m
        \* lines 523-524
        Identifier(m) == IF named THEN [m EXCEPT !.identifier = Str(cap.text)] ELSE m
        \* lines 526-527
        ChildFirst(m) ==
            IF tag = "child.first" /\ m.first_child = NoNode
            THEN [m EXCEPT !.first_child = cap.node] ELSE m
        \* lines 529-530
        ChildLast(m) ==
            IF tag = "child.last" /\ m.last_child = NoNode
            THEN [m EXCEPT !.last_child = cap.node] ELSE m
        \* lines 532-533
        ParameterIdentifier(m) ==
            IF tag = "parameter.identifier"
            THEN [m EXCEPT !.parameters =
                     Append(@, [identifier |-> cap.text, type |-> <<>>,
                                has_type |-> FALSE])]
            ELSE m
        \* lines 535-536
        ParameterType(m) ==
            IF tag = "parameter.type" /\ m.parameters # <<>>
            THEN [m EXCEPT !.parameters[Len(m.parameters)] =
                     [identifier |-> @.identifier, type |-> cap.text,
                      has_type |-> TRUE]]
            ELSE m
        \* lines 538-539
        Reference(m) ==
            IF tag \in ReferenceTags
            THEN [m EXCEPT !.relationships = Append(@, cap)] ELSE m
        \* lines 541-542
        BlockType(m) ==
            IF m.block_type = ""
            THEN [m EXCEPT !.block_type = from_string(tag)] ELSE m
    IN  [m |-> BlockType(Reference(ParameterType(ParameterIdentifier(
                   ChildLast(ChildFirst(Identifier(ParseChild(acc.m)))))))),
         has_identifier |-> acc.has_identifier \/ named]

RECURSIVE find_match(_)
RECURSIVE ScanCaptures(_, _, _, _, _)
\* _find_match, lines 482-549: the loop over the captures
ScanCaptures(nd, caps, k, rooted, acc) ==
    IF k > Len(caps)
    THEN IF acc.m.block_type # "" THEN Answer(acc.m, NoLabel) ELSE NoAnswer
    ELSE LET found == caps[k].node
             tag == caps[k].tag
             root_node == rooted \/ (tag = "root" /\ nd = found)
             child == IF tag \in {"check_child", "parse_child"}
                      THEN find_match(found) ELSE NoAnswer
         IN  IF ~root_node THEN ScanCaptures(nd, caps, k + 1, FALSE, acc)
             ELSE IF tag = "no_children" /\ Children(found) # <<>> THEN NoAnswer
             ELSE IF tag = "check_child"
             THEN IF IsMatch(child)
                  THEN [child EXCEPT !.match.check_child = found]
                  ELSE NoAnswer
             ELSE ScanCaptures(nd, caps, k + 1, TRUE, AddCapture(acc, caps[k], child))

\* _find_match, lines 467-549; the captures of a parent that does not exist
\* cannot be asked for
_find_match(nd, query, capture_from_parent) ==
    IF capture_from_parent /\ Parent(nd) = NoNode THEN RaisedAnswer
    ELSE LET caps == captures(query.sites,
                              IF capture_from_parent THEN Parent(nd) ELSE nd)
         IN  IF caps = <<>> THEN NoAnswer
             ELSE ScanCaptures(nd, caps, 1, FALSE,
                               [m |-> NodeMatch(""), has_identifier |-> FALSE])

\* The loop of find_match and of find_match_with_gpt_tweaks over the
\* patterns of a tier, lines 439-450 and 454-465
RECURSIVE TryQueries(_, _, _, _, _)
\* A variant of the loop without the test of the pattern's node type
TryQueriesOfAnyType(file, qs, nd, k, capture_from_parent) ==
    IF k > Len(qs) THEN NoAnswer
    ELSE LET a == _find_match(nd, qs[k], capture_from_parent)
         IN  IF a.raised THEN a
             ELSE IF IsMatch(a)
             THEN IF a.query = NoLabel THEN [a EXCEPT !.query = Label(file, k)] ELSE a
             ELSE TryQueries(file, qs, nd, k + 1, capture_from_parent)

TryQueries(file, qs, nd, k, capture_from_parent) ==
    IF k > Len(qs) THEN NoAnswer
    ELSE LET node_type == qs[k].node_type
             a == _find_match(nd, qs[k], capture_from_parent)
         IN  IF node_type # "" /\ NodeType(nd) # node_type /\ node_type # "_"
             THEN TryQueries(file, qs, nd, k + 1, capture_from_parent)
             ELSE IF a.raised THEN a
             ELSE IF IsMatch(a)
             THEN IF a.query = NoLabel THEN [a EXCEPT !.query = Label(file, k)] ELSE a
             ELSE TryQueries(file, qs, nd, k + 1, capture_from_parent)

find_match(nd) == TryQueries("queries", queries, nd, 1, FALSE)

find_match_with_gpt_tweaks(nd) == TryQueries("gpt_queries", gpt_queries, nd, 1, TRUE)

\* The nodes of the file the patterns below are written for: a function,
\* the statement in its body and the statement after it
MatchProgram ==
    <<[kind |-> "function", name |-> "a", depth |-> 1],
      [kind |-> "stmt", name |-> "", depth |-> 2],
      [kind |-> "stmt", name |-> "", depth |-> 1]>>

Tagged(nd, tag) == Capture(nd, <<>>, tag)

\* Patterns of a regular tier
QueryChoices ==
    {Pattern("module",
             <<Site(Root, <<Tagged(Root, "root"), Tagged(Root, "definition.module"),
                            Tagged(Item(1), "child.first")>>)>>),
     Pattern("function_definition",
             <<Site(Item(1), <<Tagged(Item(1), "root"),
                               Tagged(Item(1), "definition.function"),
                               Capture(Item(1), <<"a">>, "identifier"),
                               Tagged(Item(2), "child.first")>>)>>),
     Pattern("function_definition",
             <<Site(Item(1), <<Tagged(Item(1), "root"), Tagged(Item(1), "no_children"),
                               Tagged(Item(1), "definition.class")>>)>>),
     Pattern("function_definition",
             <<Site(Item(1), <<Tagged(Item(1), "root"),
                               Tagged(Item(2), "check_child")>>)>>),
     Pattern("class_definition",
             <<Site(Item(1), <<Tagged(Item(1), "root"),
                               Tagged(Item(1), "definition.class")>>)>>),
     Pattern("expression_statement",
             <<Site(Item(2), <<Tagged(Item(2), "root"),
                               Tagged(Item(2), "definition.statement")>>),
               Site(Item(3), <<Tagged(Item(3), "root"),
                               Tagged(Item(3), "definition.statement")>>)>>),
     Pattern("_",
             <<Site(Item(2), <<Tagged(Item(2), "root"), Tagged(Item(2), "no_children"),
                               Capture(Item(2), <<"f">>, "reference.calls"),
                               Tagged(Item(2), "definition.call")>>),
               Site(Item(3), <<Tagged(Item(3), "root"), Tagged(Item(3), "no_children"),
                               Capture(Item(3), <<"f">>, "reference.calls"),
                               Tagged(Item(3), "definition.call")>>)>>)}

\* Patterns of an error-tolerant tier
GptQueryChoices ==
    {Pattern("expression_statement",
             <<Site(Item(2), <<Tagged(Item(2), "root"),
                               Tagged(Item(2), "definition.commented_out_code")>>),
               Site(Item(3), <<Tagged(Item(3), "root"),
                               Tagged(Item(3), "definition.commented_out_code")>>)>>),
     Pattern("",
             <<Site(Item(1), <<Tagged(Item(1), "root"),
                               Tagged(Item(1), "definition.function")>>)>>)}

RECURSIVE Catalogs(_, _)
Catalogs(n, choices) ==
    IF n = 0 THEN {<<>>}
    ELSE LET shorter == Catalogs(n - 1, choices)
         IN  shorter \cup {Append(c, q) : c \in {x \in shorter : Len(x) = n - 1},
                                          q \in choices}

\* A parser of a language with a catalog, before any call
InitMatch ==
    /\ prog = MatchProgram
    /\ tree = SyntaxTree(prog, 0)
    /\ apply_gpt_tweaks \in BOOLEAN
    /\ queries \in Catalogs(MaxQueries, QueryChoices)
    /\ gpt_queries \in (IF apply_gpt_tweaks
                        THEN Catalogs(MaxGptQueries, GptQueryChoices)
                        ELSE {<<>>})
    /\ node_match = NotAsked
    /\ ctype = "none"
    /\ pc = "idle"
    /\ calls = 0
    /\ stack = <<>>
    /\ blocks = <<>>
    /\ spans = <<>>
    /\ spans_by_id = <<>>
    /\ graph = NoGraph
    /\ comments_with_no_span = <<>>
    /\ indexed = <<>>
    /\ result = NoResult
    /\ other = NoThread

\* The nodes parse_code hands to find_in_tree, lines 150-156
Matchable == {nd \in DOMAIN tree.type : NodeType(nd) # "ERROR" /\ ~HasErrorChild(nd)}

\* find_in_tree, lines 417-436, called on a node
FindInTree ==
    /\ \E nd \in Matchable :
          LET gpt == IF apply_gpt_tweaks THEN find_match_with_gpt_tweaks(nd)
                     ELSE NoAnswer
              a == IF gpt.raised \/ IsMatch(gpt) THEN gpt ELSE find_match(nd)
          IN  node_match' =
                  [node |-> nd, raised |-> a.raised,
                   match |-> IF a.raised \/ IsMatch(a) THEN a.match
                             ELSE NodeMatch("Code"),
                   query |-> a.query]
    /\ UNCHANGED <<prog, tree, apply_gpt_tweaks, queries, gpt_queries, ctype, pc,
                   calls, stack, blocks, spans, spans_by_id, graph,
                   comments_with_no_span, indexed, result, other>>

NextMatch == FindInTree

SpecMatch == InitMatch /\ [][NextMatch]_vars

Returned == pc = "done" /\ result.returned

RECURSIVE Flatten(_)
Flatten(ss) == IF ss = <<>> THEN <<>> ELSE ss[1] \o Flatten(Tail(ss))

\* pre_code then content of block b and of its descendants, depth-first
RECURSIVE BlockText(_, _)
BlockText(bs, b) ==
    bs[b].pre_code \o bs[b].content
    \o Flatten([k \in 1 .. Len(bs[b].children) |-> BlockText(bs, bs[b].children[k])])

\* Block b and its descendants
RECURSIVE BlocksOf(_, _)
BlocksOf(bs, b) ==
    {b} \cup UNION {BlocksOf(bs, bs[b].children[k]) : k \in 1 .. Len(bs[b].children)}

ModuleBlocks == BlocksOf(blocks, result.module)

\* The spans of the returned Module's registry
Registered == {result.spans_by_id[id] : id \in DOMAIN result.spans_by_id}

BlockPaths(s) == Range(spans[s].block_paths)

\* C1: round trip.  After parse returns, pre_code then content of every
\* block of the Module, depth-first in child order, is the source text:
\* no byte lost, duplicated or reordered, ERROR nodes included.
RoundTrip == Returned => BlockText(blocks, result.module) = ContentBytes

\* C2: span partition.  After parse returns every block other than the
\* Module belongs to a registered span, its path is in the block_paths of
\* exactly one registered span, and the registered spans' block_paths
\* together are the paths of all blocks.
SpanPartition ==
    Returned =>
        LET others == ModuleBlocks \ {result.module}
        IN  /\ \A b \in others :
                  /\ blocks[b].belongs_to_span \in Registered
                  /\ Cardinality({s \in Registered :
                                     full_path(blocks, b) \in BlockPaths(s)}) = 1
            /\ UNION {BlockPaths(s) : s \in Registered}
                  = {full_path(blocks, b) : b \in others}

\* C3: span budget.  After parse returns every registered span has at most
\* MaxTokensInSpan tokens, unless it holds a single block whose own tokens
\* exceed the budget.
SpanBudget ==
    Returned =>
        \A s \in Registered :
            \/ spans[s].tokens <= MaxTokensInSpan
            \/ LET held == {b \in ModuleBlocks : blocks[b].belongs_to_span = s}
               IN  /\ Len(spans[s].block_paths) = 1
                   /\ Cardinality(held) = 1
                   /\ \A b \in held : blocks[b].tokens > MaxTokensInSpan

\* C4: identifier uniqueness.  No two children of one parent that have the
\* same block type share an identifier.
IdentifierUniqueness ==
    \A p \in 1 .. Len(blocks) :
        \A i, j \in 1 .. Len(blocks[p].children) :
            LET x == blocks[blocks[p].children[i]]
                y == blocks[blocks[p].children[j]]
            IN  (i # j /\ x.type = y.type) => x.identifier # y.identifier

\* C5: graph consistency.  After parse returns, each LOCAL relationship of
\* a block has an edge from the block's path to the relationship's dotted
\* path, and an EXTERNAL relationship has no such edge.
GraphConsistency ==
    Returned =>
        \A b \in ModuleBlocks :
            \A k \in 1 .. Len(blocks[b].relationships) :
                LET r == blocks[b].relationships[k]
                    e == <<path_string(blocks, b), JoinDot(r.path)>>
                IN  /\ r.scope = "LOCAL" => e \in result.graph.edges
                    /\ r.scope = "EXTERNAL" => e \notin result.graph.edges

\* C6: span ids are unique.  No two spans created during a parse have the
\* same id, the seed span included: a new span never takes the id of a
\* span the registry already holds.
SpanIdsUnique ==
    \A s, t \in 1 .. Len(spans) :
        s # t => spans[s].span_id # spans[t].span_id

\* C7: parse returns a Module.  For str or bytes content the returned block
\* has type Module and no parent, and its registry holds the seed span
\* "initiation" with phase INITIATION and an empty parent_block_path.
ReturnsModule ==
    pc = "done" =>
        /\ result.returned
        /\ blocks[result.module].type = "Module"
        /\ blocks[result.module].parent = NoBlock
        /\ "initiation" \in DOMAIN result.spans_by_id
        /\ LET seed == spans[result.spans_by_id["initiation"]]
           IN  /\ seed.span_id = "initiation"
               /\ seed.span_type = "INITIATION"
               /\ seed.parent_block_path = <<>>

\* C7 witness: a parse has returned for a root node matched to Error
ReturnsModuleWitness ==
    /\ pc = "done"
    /\ MatchNode(Root).block_type = "Error"
    /\ blocks[result.module].type = "Module"

\* C8: error containment.  After parse returns, every node handed to the
\* builder that is an ERROR node or has an ERROR node among its children
\* has become exactly one block, of type Error, holding the node's whole
\* text and no children.
ErrorContainment ==
    Returned =>
        \A nd \in DOMAIN tree.type :
            LET made == {b \in 1 .. Len(blocks) : blocks[b].node = nd}
            IN  (made # {} /\ (NodeType(nd) = "ERROR" \/ HasErrorChild(nd))) =>
                    /\ Cardinality(made) = 1
                    /\ \A b \in made :
                           /\ blocks[b].type = "Error"
                           /\ blocks[b].content = Slice(StartByte(nd), EndByte(nd))
                           /\ blocks[b].children = <<>>

\* C9: content that is neither str nor bytes.  The call raises before any
\* work: nothing is handed to the index callback, no Module is returned,
\* and the registry, the graph and the comment buffer are as before the
\* call, as are all blocks and spans.
RaiseLeavesStateAlone ==
    [][(pc' = "raised" /\ ~AcceptedType(ctype')) =>
           /\ spans_by_id' = spans_by_id
           /\ graph' = graph
           /\ comments_with_no_span' = comments_with_no_span
           /\ blocks' = blocks
           /\ spans' = spans
           /\ indexed' = <<>>
           /\ ~result'.returned]_vars

\* C9 witness: a call has raised on int content after an earlier parse
\* filled the registry and the graph
RaiseWitness ==
    /\ pc = "raised"
    /\ ctype = "int"
    /\ Cardinality(DOMAIN spans_by_id) > 1
    /\ graph.nodes # {}
    /\ indexed = <<>>

Ancestors(b) == BlocksOf(blocks, result.module) \cap
                {a \in 1 .. Len(blocks) : a # b /\ b \in BlocksOf(blocks, a)}

\* Module, Class, or Function with no Function among its ancestors
Addressable(b) ==
    \/ blocks[b].type \in {"Module", "Class"}
    \/ /\ blocks[b].type = "Function"
       /\ \A a \in Ancestors(b) : blocks[a].type # "Function"

Invocations(b) == Cardinality({k \in 1 .. Len(indexed) : indexed[k].block = b})

\* C10: index callback.  When parse returns, the callback has been invoked
\* exactly once for each Module, Class and Function with no Function
\* among its ancestors, and never for any other block.
IndexedExactlyOnce ==
    pc = "done" =>
        \A b \in ModuleBlocks :
            Invocations(b) = (IF Addressable(b) THEN 1 ELSE 0)

\* C10 witness: a parse has returned a Module holding a top-level function
\* that was indexed and a function inside it that was not
IndexedWitness ==
    /\ pc = "done"
    /\ \E b, c \in ModuleBlocks :
          /\ blocks[b].type = "Function" /\ blocks[c].type = "Function"
          /\ b \in Ancestors(c)
          /\ Invocations(b) = 1 /\ Invocations(c) = 0
    /\ Invocations(result.module) = 1

\* The sequence s without its element at position i
Without(s, i) == SubSeq(s, 1, i - 1) \o SubSeq(s, i + 1, Len(s))

\* C13: import extraction.  For an Import block whose captures hold a
\* module reference, the first one is the external module; each of the k
\* further captures gives one EXTERNAL IMPORTS relationship with
\* external_path = [module], an alias with identifier = alias and an empty
\* path, any other with identifier = name and path = [name]; with no
\* further capture there is one relationship, identifier = module.
ImportExtraction ==
    \A b \in 1 .. Len(blocks) :
        LET caps == tree.match[blocks[b].node].relationships
            rels == blocks[b].relationships
            mods == {k \in 1 .. Len(caps) : caps[k].tag = "reference.module"}
        IN  (blocks[b].type = "Import" /\ blocks[b].node # NoNode /\ mods # {}) =>
                LET first == CHOOSE k \in mods : \A j \in mods : k <= j
                    module == Str(caps[first].text)
                    further == Without(caps, first)
                IN  /\ \A k \in 1 .. Len(rels) :
                           /\ rels[k].scope = "EXTERNAL"
                           /\ rels[k].type = "IMPORTS"
                           /\ rels[k].external_path = <<module>>
                    /\ IF further = <<>>
                       THEN Len(rels) = 1 /\ rels[1].identifier = module
                       ELSE /\ Len(rels) = Len(further)
                            /\ \A k \in 1 .. Len(further) :
                                   /\ rels[k].identifier = Str(further[k].text)
                                   /\ rels[k].path =
                                          (IF further[k].tag = "reference.alias"
                                           THEN <<>>
                                           ELSE <<Str(further[k].text)>>)

\* C13 witness: a parse has returned with the block of 'import os as o',
\* one relationship with identifier o and external_path [os], and with a
\* block of an import with two further captures
ImportWitness ==
    /\ pc = "done"
    /\ \E b \in 1 .. Len(blocks) :
          /\ blocks[b].type = "Import"
          /\ Len(blocks[b].relationships) = 1
          /\ blocks[b].relationships[1].identifier = "o"
          /\ blocks[b].relationships[1].path = <<>>
          /\ blocks[b].relationships[1].external_path = <<"os">>
    /\ \E b \in 1 .. Len(blocks) :
          blocks[b].type = "Import" /\ Len(blocks[b].relationships) = 2

\* The paths of block b and of its descendants, depth-first
RECURSIVE PathsOf(_, _)
PathsOf(bs, b) ==
    <<full_path(bs, b)>>
    \o Flatten([k \in 1 .. Len(bs[b].children) |-> PathsOf(bs, bs[b].children[k])])

\* The functions at the top level of the returned Module
TopFunctions ==
    {b \in Range(blocks[result.module].children) : blocks[b].type = "Function"}

\* The children of the returned Module are functions, a trailing block aside
OnlyFunctions ==
    \A b \in Range(blocks[result.module].children) :
        blocks[b].type \in {"Function", "Space"}

\* C14: top-level span alignment.  In a module whose children are
\* functions, a function that fits the budget with its body has one span
\* of its own, opened by the function, registered, not partial when parse
\* returns, listing the function's path and then the paths of its body
\* blocks, and shared with no other top-level function.
TopLevelAlignment ==
    (Returned /\ OnlyFunctions) =>
        \A f \in TopFunctions :
            sum_tokens(blocks, f) <= MaxTokensInSpan =>
                LET s == blocks[f].belongs_to_span
                IN  /\ s \in Registered
                    /\ spans[s].parent_block_path = full_path(blocks, f)
                    /\ ~spans[s].is_partial
                    /\ spans[s].block_paths = PathsOf(blocks, f)
                    /\ \A b \in BlocksOf(blocks, f) : blocks[b].belongs_to_span = s
                    /\ \A g \in TopFunctions \ {f} : blocks[g].belongs_to_span # s

\* C14 witness: a parse has returned a module of two functions, each with
\* a body block and a span of its own
AlignmentWitness ==
    /\ Returned
    /\ OnlyFunctions
    /\ \E f, g \in TopFunctions :
          /\ f # g
          /\ blocks[f].children # <<>> /\ blocks[g].children # <<>>
          /\ sum_tokens(blocks, f) <= MaxTokensInSpan
          /\ sum_tokens(blocks, g) <= MaxTokensInSpan
          /\ blocks[f].belongs_to_span # blocks[g].belongs_to_span
          /\ ~spans[blocks[f].belongs_to_span].is_partial
          /\ ~spans[blocks[g].belongs_to_span].is_partial

\* The places of path in the block_paths of span s
PlacesIn(s, path) ==
    {k \in 1 .. Len(spans[s].block_paths) : spans[s].block_paths[k] = path}

\* Comment c was queued when it was built: the span it was then added to
\* lists its path after two or more others, so that the running span had
\* more than one path when c was built (a comment that is not queued is
\* added to a span of at most one path, or to the span it opens).
WasQueued(c) ==
    /\ blocks[c].type = "Comment"
    /\ blocks[c].belongs_to_span # NoSpan
    /\ PlacesIn(blocks[c].belongs_to_span, full_path(blocks, c)) # {}
    /\ \A k \in PlacesIn(blocks[c].belongs_to_span, full_path(blocks, c)) : k > 2

\* The siblings after c that are not comments, as places in the child list
\* of c's parent; the trailing block of the Module is given no span and is
\* no such sibling.
LaterSiblings(c) ==
    LET ch == blocks[blocks[c].parent].children
    IN  {k \in 1 .. Len(ch) :
            /\ \E j \in 1 .. (k - 1) : ch[j] = c
            /\ blocks[ch[k]].type \notin {"Comment", "Space"}}

NextNonComment(c) ==
    LET ch == blocks[blocks[c].parent].children
        k == CHOOSE i \in LaterSiblings(c) : \A j \in LaterSiblings(c) : i <= j
    IN  ch[k]

\* C15: comment deferral.  A queued comment has no span while it is queued,
\* and when parse has returned every comment that was queued belongs to the
\* span of its next sibling that is not a comment, and that span lists its
\* path, also when that sibling opened a new span.
CommentDeferral ==
    /\ \A c \in Range(comments_with_no_span) : blocks[c].belongs_to_span = NoSpan
    /\ Returned =>
         \A c \in ModuleBlocks \ {result.module} :
            (WasQueued(c) /\ LaterSiblings(c) # {}) =>
                LET s == blocks[NextNonComment(c)].belongs_to_span
                IN  /\ blocks[c].belongs_to_span = s
                    /\ full_path(blocks, c) \in BlockPaths(s)

\* C16: index-callback ordering.  When parse has returned, every block that
\* was handed to the callback has the child list it had at the call, the
\* Module with its trailing block included, and each of its descendants that
\* was handed over was handed over before it.
IndexOrdering ==
    Returned =>
        \A k \in 1 .. Len(indexed) :
            /\ blocks[indexed[k].block].children = indexed[k].children
            /\ \A j \in 1 .. Len(indexed) :
                  (/\ indexed[j].block # indexed[k].block
                   /\ indexed[j].block \in BlocksOf(blocks, indexed[k].block)) => j < k

\* C17: fragment recovery.  When the root node is matched to a block type
\* other than Module, the Module that parse returns has one child beside
\* its trailing block, built from the root node again.
FragmentRecovery ==
    (Returned /\ MatchNode(Root).block_type # "Module") =>
        LET ch == blocks[result.module].children
            walked == {k \in 1 .. Len(ch) : blocks[ch[k]].type # "Space"}
        IN  /\ Cardinality(walked) = 1
            /\ \A k \in walked : blocks[ch[k]].node = Root

\* The path strings of the blocks built so far that are imports, and of
\* those that are not
ImportNodes == {path_string(blocks, b) : b \in {x \in 1 .. Len(blocks) : blocks[x].type = "Import"}}
OtherNodes == {path_string(blocks, b) : b \in {x \in 1 .. Len(blocks) : blocks[x].type # "Import"}}

\* C18: empty dotted names.  Every relationship of a block that is not an
\* import has a path with a segment that is not empty, and the graph has no
\* edge from such a block to the empty name: a captured reference with an
\* empty name leaves no relationship and no edge.
EmptyReferenceDropped ==
    /\ \A b \in 1 .. Len(blocks) :
          blocks[b].type # "Import" =>
              \A k \in 1 .. Len(blocks[b].relationships) :
                  \E j \in 1 .. Len(blocks[b].relationships[k].path) :
                      blocks[b].relationships[k].path[j] # ""
    /\ \A e \in graph.edges : e[1] \in OtherNodes \ ImportNodes => e[2] # ""

\* A step that builds a block under a parent block: the block built, and
\* the span that is running when it is built
BuildsChild ==
    /\ pc = "parsing"
    /\ Top.pc = "enter"
    /\ Top.parent_block # NoBlock
    /\ Len(blocks') = Len(blocks) + 1

Built == Len(blocks) + 1

Running == Top.current_span

\* The block built is a comment that is queued
BuiltQueued == Built \in Range(comments_with_no_span')

\* The rule of new definitions (a structural block other than a constructor,
\* directly under a Module or Class, while the running span is the span of
\* that parent) and the rule of the return from a nested scope
DefinitionRuleApplies ==
    /\ Group(blocks'[Built].type) = "Structure"
    /\ blocks'[Built].type # "Constructor"
    /\ blocks[Top.parent_block].type \in {"Module", "Class"}
    /\ spans[Running].parent_block_path = full_path(blocks, Top.parent_block)

NestedRuleApplies ==
    Len(spans[Running].parent_block_path) > Len(full_path(blocks, Top.parent_block))

OverBudget == spans[Running].tokens + blocks'[Built].tokens > MaxTokensInSpan

\* The step opens a partial span that continues the running span, marks
\* the running span partial and places the block built in the new span
SplitsSpan ==
    LET new == Len(spans) + 1
    IN  /\ Len(spans') = Len(spans) + 1
        /\ spans'[new].is_partial
        /\ spans'[new].index = spans[Running].index + 1
        /\ spans'[new].parent_block_path = spans[Running].parent_block_path
        /\ spans'[Running].is_partial
        /\ blocks'[Built].belongs_to_span = new
        /\ spans'[new].block_paths = <<full_path(blocks', Built)>>

\* The step opens no span and adds the block built to the running span
ExtendsSpan ==
    /\ Len(spans') = Len(spans)
    /\ blocks'[Built].belongs_to_span = Running
    /\ spans'[Running].block_paths =
           Append(spans[Running].block_paths, full_path(blocks', Built))
    /\ spans'[Running].tokens = spans[Running].tokens + blocks'[Built].tokens

BudgetCase ==
    BuildsChild /\ ~DefinitionRuleApplies /\ ~NestedRuleApplies /\ OverBudget

BudgetOutcome ==
    IF Group(blocks[Top.parent_block].type) = "Structure"
    THEN SplitsSpan
    ELSE ExtendsSpan

\* C19 as stated: budget split.  Whenever a block is built to which neither
\* the definition rule nor the nested-scope rule applies and which takes
\* the running span over the budget, the running span is split if the
\* block's parent is structural and extended by the block if it is not.
BudgetSplitOfEveryBlock == [][BudgetCase => BudgetOutcome]_vars

\* C19 amended: the same for every block built that is not a comment queued
\* at that moment.
BudgetSplit == [][(BudgetCase /\ ~BuiltQueued) => BudgetOutcome]_vars

\* C19 witness: a parse has returned a Module with a block in a partial
\* span of index 1 under a structural parent, and a block under a parent
\* that is not structural in a span over the budget
BudgetSplitWitness ==
    /\ Returned
    /\ \E b \in ModuleBlocks \ {result.module} :
          /\ blocks[b].belongs_to_span # NoSpan
          /\ spans[blocks[b].belongs_to_span].index = 1
          /\ spans[blocks[b].belongs_to_span].is_partial
          /\ Group(blocks[blocks[b].parent].type) = "Structure"
    /\ \E b \in ModuleBlocks \ {result.module} :
          /\ blocks[b].belongs_to_span # NoSpan
          /\ spans[blocks[b].belongs_to_span].tokens > MaxTokensInSpan
          /\ Group(blocks[blocks[b].parent].type) # "Structure"

\* C20: span phase.  A span opened when a block is built is INITIATION if
\* the block is a Class, or if the running span is INITIATION and the block
\* is not a Function, and IMPLEMENTATION otherwise; the seed span opened
\* with the Module, before any span runs, is INITIATION; and no step changes
\* the phase of a span of the parse under way.
SpanPhase ==
    [][/\ (BuildsChild /\ Len(spans') = Len(spans) + 1) =>
              spans'[Len(spans')].span_type =
                  (IF \/ blocks'[Built].type = "Class"
                      \/ /\ spans[Running].span_type = "INITIATION"
                         /\ blocks'[Built].type # "Function"
                   THEN "INITIATION"
                   ELSE "IMPLEMENTATION")
       /\ (spans = <<>> /\ spans' # <<>>) =>
              (Len(spans') = 1 /\ spans'[1].span_type = "INITIATION")
       /\ \A s \in 1 .. Len(spans) :
              s <= Len(spans') => spans'[s].span_type = spans[s].span_type]_vars

\* C20 witness: a parse has returned with a span opened by a Function while
\* the seed span was running, a later INITIATION span opened by a Class and
\* a still later IMPLEMENTATION span
SpanPhaseWitness ==
    /\ Returned
    /\ \E s, t, u \in 1 .. Len(spans) :
          /\ 1 < s /\ s < t /\ t < u
          /\ spans[s].span_type = "IMPLEMENTATION"
          /\ spans[t].span_type = "INITIATION"
          /\ spans[u].span_type = "IMPLEMENTATION"
          /\ \E b \in ModuleBlocks : blocks[b].type = "Function" /\ blocks[b].belongs_to_span = s
          /\ \E b \in ModuleBlocks : blocks[b].type = "Class" /\ blocks[b].belongs_to_span = t

\* C11: sequential isolation.  Every parse call on the instance, the first
\* and each later one, starts work in the same state: the comment buffer,
\* the registry and the graph are empty and no block, span, callback record
\* or result of an earlier call is left, whether that call returned or
\* raised; the call therefore runs and returns as the first call of a fresh
\* instance does on the same content.
SequentialIsolation ==
    [][(pc # "parsing" /\ pc' = "parsing") =>
           /\ comments_with_no_span' = <<>>
           /\ spans_by_id' = <<>>
           /\ graph' = DiGraph
           /\ blocks' = <<>>
           /\ spans' = <<>>
           /\ indexed' = <<>>
           /\ result' = NoResult
           /\ stack' = <<Frame(Root, 0, 0, NoBlock, NoSpan)>>
           /\ <<prog, tree, apply_gpt_tweaks>>' = <<prog, tree, apply_gpt_tweaks>>]_vars

\* C11 witness: the second call on the instance has returned a Module with
\* spans, graph nodes and a comment block
IsolationWitness ==
    /\ calls = 2
    /\ Returned
    /\ Cardinality(DOMAIN result.spans_by_id) > 1
    /\ result.graph.nodes # {}
    /\ \E b \in ModuleBlocks : blocks[b].type = "Comment"

\* The spans the blocks of the returned Module belong to
OwnSpans ==
    {blocks[b].belongs_to_span : b \in ModuleBlocks} \ {NoSpan}

\* The spans that blocks outside the returned Module belong to
ForeignSpans ==
    {blocks[b].belongs_to_span : b \in (1 .. Len(blocks)) \ ModuleBlocks} \ {NoSpan}

\* C12: sharing one instance.  Whatever the other caller does, a call that
\* enters parse replaces the registry and the graph of the instance, also
\* while the other call is at work on them, and a call that returns hands
\* out the registry and the graph the instance holds at that moment.
SharedRegistry ==
    [][/\ (other' = other /\ pc = "idle" /\ pc' = "parsing") =>
              (spans_by_id' = <<>> /\ graph' = DiGraph)
       /\ (other' = other /\ pc = "parsing" /\ pc' = "done") =>
              (/\ result'.returned
               /\ result'.spans_by_id = spans_by_id
               /\ result'.graph = graph)]_vars

\* C12 witness: after two calls that overlapped, a Module has been returned
\* whose registry holds a span of the other call's blocks and lacks a span
\* its own blocks belong to
SharedWitness ==
    /\ Returned
    /\ other.pc \in {"parsing", "done"}
    /\ Registered \cap ForeignSpans # {}
    /\ OwnSpans \ Registered # {}

\* The kind the claim gives a reference with the given tag in a block of
\* the given type
KindOfTag(tag, type) ==
    CASE tag = "reference.utilizes" ->
            (IF type \in {"Function", "Class"} THEN "DEFINED_BY" ELSE "UTILIZES")
      [] tag = "reference.provides" -> "PROVIDES"
      [] tag = "reference.calls" -> "CALLS"
      [] tag = "reference.type" -> "IS_A"
      [] OTHER -> "USES"

\* C21: references of blocks that are not imports.  The relationships of
\* such a block begin with one relationship for each reference captured on
\* its node, in capture order, with scope LOCAL, the identifier of the
\* block, the captured text split on '.' as path and the kind of the
\* capture's tag; the only further relationships are those of its typed
\* parameters.
ReferenceRelationships ==
    \A b \in 1 .. Len(blocks) :
        (blocks[b].node # NoNode /\ blocks[b].type # "Import") =>
            LET m == MatchNode(blocks[b].node)
                caps == m.relationships
                rels == blocks[b].relationships
                typed == {k \in 1 .. Len(m.parameters) : m.parameters[k].has_type}
            IN  /\ Len(rels) = Len(caps) + Cardinality(typed)
                /\ \A k \in 1 .. Len(caps) :
                      /\ rels[k].scope = "LOCAL"
                      /\ rels[k].identifier = blocks[b].identifier
                      /\ rels[k].path = SplitDot(caps[k].text)
                      /\ rels[k].type = KindOfTag(caps[k].tag, blocks[b].type)

\* The blocks whose path the span lists, and the sum of their token counts
ListedBlocks(s) ==
    {b \in 1 .. Len(blocks) : full_path(blocks, b) \in BlockPaths(s)}

RECURSIVE TokensOf(_)
TokensOf(bset) ==
    IF bset = {} THEN 0
    ELSE LET b == CHOOSE x \in bset : TRUE
         IN  blocks[b].tokens + TokensOf(bset \ {b})

\* C23: span accounting.  In every state of a parse and after it, the
\* tokens of each span are the sum of the token counts of the blocks whose
\* paths the span lists, no span lists a path twice, and a block belongs to
\* a span exactly when that span lists the block's path.
SpanAccounting ==
    \A s \in 1 .. Len(spans) :
        /\ spans[s].tokens = TokensOf(ListedBlocks(s))
        /\ \A i, j \in 1 .. Len(spans[s].block_paths) :
              i # j => spans[s].block_paths[i] # spans[s].block_paths[j]
        /\ \A b \in 1 .. Len(blocks) :
              blocks[b].belongs_to_span = s
                  <=> full_path(blocks, b) \in BlockPaths(s)

\* Number of edges between a node and the root, and the depth of the tree
RECURSIVE NodeDepth(_)
NodeDepth(nd) == IF Parent(nd) = NoNode THEN 0 ELSE 1 + NodeDepth(Parent(nd))

TreeDepth ==
    CHOOSE d \in {NodeDepth(nd) : nd \in DOMAIN tree.parent} :
        \A nd \in DOMAIN tree.parent : NodeDepth(nd) <= d

\* The next sibling of the nearest of nd and its ancestors below top that
\* has one; NoNode when there is none
RECURSIVE NextBelow(_, _)
NextBelow(nd, top) ==
    IF nd = NoNode \/ nd = top THEN NoNode
    ELSE IF NextSibling(nd) # NoNode THEN NextSibling(nd)
    ELSE NextBelow(Parent(nd), top)

\* No node has two blocks, the children of every block are in source order
\* and the calls of parse_code are nested no deeper than the tree
WalkSafe ==
    /\ \A b, c \in 1 .. Len(blocks) :
          (b # c /\ blocks[b].node # NoNode) => blocks[b].node # blocks[c].node
    /\ \A b \in 1 .. Len(blocks) :
          \A i, j \in 1 .. Len(blocks[b].children) :
              LET x == blocks[blocks[b].children[i]].node
                  y == blocks[blocks[b].children[j]].node
              IN  (i < j /\ x # NoNode /\ y # NoNode) =>
                      /\ StartByte(x) <= StartByte(y)
                      /\ EndByte(x) <= StartByte(y)
    /\ \A k \in 1 .. Len(stack) :
          /\ stack[k].level = k - 1
          /\ stack[k].level <= NodeDepth(stack[k].node)
    /\ Len(stack) <= TreeDepth + 1

\* A call of parse_code for a child is about to return to its caller's loop
ChildReturns == pc = "parsing" /\ Len(stack) >= 2 /\ ExitReady(Top)

\* Where the caller's loop goes after the child: it starts from the terminal
\* node the child reported, or from the child's node, ends there when that
\* is its own terminal node, and otherwise goes on below its own node
WalkRule ==
    LET c == Top
        p == stack[Len(stack) - 1]
        start == IF c.next_node # NoNode THEN c.next_node ELSE c.node
        ends == ~p.wrong_level_mode /\ start = MatchNode(p.node).last_child
    IN  /\ pc' = "parsing"
        /\ Len(stack') = Len(stack) - 1
        /\ LET q == stack'[Len(stack')]
           IN  IF ends THEN q.pc = "exit" /\ q.next_node = start
               ELSE q.pc = "loop" /\ q.next_node = NextBelow(start, p.node)

TriedOn(nd) ==
    LET up == IF Parent(nd) # NoNode THEN Parent(nd) ELSE nd
    IN  (IF apply_gpt_tweaks
         THEN [k \in 1 .. Len(gpt_queries) |->
                  [label |-> Label("gpt_queries", k), pattern |-> gpt_queries[k],
                   caps |-> captures(gpt_queries[k].sites, up)]]
         ELSE <<>>)
        \o [k \in 1 .. Len(queries) |->
               [label |-> Label("queries", k), pattern |-> queries[k],
                caps |-> captures(queries[k].sites, nd)]]

RegularOn(nd) ==
    [k \in 1 .. Len(queries) |->
        [label |-> Label("queries", k), pattern |-> queries[k],
         caps |-> captures(queries[k].sites, nd)]]

SkippedFor(pattern, nd) ==
    /\ pattern.node_type # ""
    /\ pattern.node_type # NodeType(nd)
    /\ pattern.node_type # "_"

\* Least element of a set of positions, 0 when it is empty
First(ks) == IF ks = {} THEN 0 ELSE CHOOSE k \in ks : \A j \in ks : k <= j

\* Position of the first root capture on the node, and of the first capture
\* from there on that names a block type
RootAt(caps, nd) ==
    First({k \in 1 .. Len(caps) : caps[k].tag = "root" /\ caps[k].node = nd})

TypeAt(caps, nd) ==
    IF RootAt(caps, nd) = 0 THEN 0
    ELSE First({k \in RootAt(caps, nd) .. Len(caps) : from_string(caps[k].tag) # ""})

\* The first pattern that is not skipped, has a root capture on the node
\* and yields a block type
FirstHit(tried, nd) ==
    First({k \in 1 .. Len(tried) :
              ~SkippedFor(tried[k].pattern, nd) /\ TypeAt(tried[k].caps, nd) # 0})

StopAt(caps, nd) ==
    IF RootAt(caps, nd) = 0 THEN 0
    ELSE First({k \in RootAt(caps, nd) .. Len(caps) :
                   \/ caps[k].tag = "check_child"
                   \/ caps[k].tag = "no_children" /\ Children(caps[k].node) # <<>>})

Nothing == [label |-> NoLabel, block_type |-> "", check_child |-> NoNode]

\* What the patterns of a tier give on a node: for each pattern in turn,
\* nothing when it is skipped, has no root capture on the node or is ended
\* by no_children; the regular tier's result on the captured node when it
\* is ended by check_child; else the block type its captures name.
RECURSIVE ExpectedRegular(_)
RECURSIVE ExpectedFrom(_, _, _)
ExpectedFrom(tried, nd, k) ==
    IF k > Len(tried) THEN Nothing
    ELSE LET caps == tried[k].caps
             stop == StopAt(caps, nd)
             type == TypeAt(caps, nd)
             child == IF stop # 0 /\ caps[stop].tag = "check_child"
                      THEN ExpectedRegular(caps[stop].node) ELSE Nothing
             gives ==
                 IF SkippedFor(tried[k].pattern, nd) \/ RootAt(caps, nd) = 0
                 THEN Nothing
                 ELSE IF stop # 0
                 THEN IF child.block_type # ""
                      THEN [child EXCEPT !.check_child = caps[stop].node]
                      ELSE Nothing
                 ELSE IF type # 0
                 THEN [label |-> tried[k].label,
                       block_type |-> from_string(caps[type].tag),
                       check_child |-> NoNode]
                 ELSE Nothing
         IN  IF gives.block_type # "" THEN gives ELSE ExpectedFrom(tried, nd, k + 1)

ExpectedRegular(nd) == ExpectedFrom(RegularOn(nd), nd, 1)

\* The error-tolerant tier is asked for the captures of the node's parent;
\* the statement leaves out the root node when a pattern of that tier is
\* not skipped for it.
CoveredNode(nd) ==
    ~ /\ apply_gpt_tweaks
      /\ Parent(nd) = NoNode
      /\ \E k \in 1 .. Len(gpt_queries) : ~SkippedFor(gpt_queries[k], nd)

MatchingResult ==
    (node_match.node # NoNode /\ CoveredNode(node_match.node)) =>
        LET nd == node_match.node
            expected == ExpectedFrom(TriedOn(nd), nd, 1)
        IN  /\ ~node_match.raised
            /\ IF expected.block_type = ""
               THEN node_match.match = NodeMatch("Code") /\ node_match.query = NoLabel
               ELSE /\ node_match.query = expected.label
                    /\ node_match.match.block_type = expected.block_type
                    /\ node_match.match.check_child = expected.check_child

====
